---- MODULE Spec2Model ----
(***************************************************************************)
(* A model of pitest/name.py: the PyName name service.                     *)
(*                                                                         *)
(* Python strings are modelled as sequences of one-character strings, so   *)
(* that "a.b" is <<"a", ".", "b">>.  Three specifications drive the code:  *)
(*   SpecGlob  one call of PyName.glob_match on a haystack and a needle;   *)
(*   SpecPath  one call of PyName.to_pyname on a path, under a $HOME;      *)
(*   Spec      PyName objects over a small heap of subjects: construction, *)
(*             name, match, sub, subglob, and the environment rebinding or *)
(*             deleting attributes of the subjects.                        *)
(***************************************************************************)
EXTENDS Integers, Sequences, FiniteSets, TLC

VARIABLES
    haystack,   \* glob_match: argument haystack
    needle,     \* glob_match: argument needle
    matched,    \* glob_match: what re.match returned, "Match" or "None" ("pending" before the call)
    fname,      \* to_pyname: argument fname
    home,       \* to_pyname: os.environ['HOME']
    result,     \* to_pyname: the outcome, [kind, val] ("pending" before the call)
    objs,       \* the subjects: each object's attributes
    bindings,   \* the PyName objects made so far, in order of construction
    born,       \* history: how each PyName was made (the prefix given, the parent, the attribute)
    ret         \* the last call on a PyName and what it returned

vars == <<haystack, needle, matched, fname, home, result, objs, bindings, born, ret>>

globVars == <<haystack, needle, matched>>
pathVars == <<fname, home, result>>
bindVars == <<objs, bindings, born, ret>>

(***************************************************************************)
(* Strings.                                                                *)
(***************************************************************************)

\* The strings over alphabet A of length at most n.
StringsUpTo(A, n) == UNION {[1..k -> A] : k \in 0..n}

RECURSIVE Join(_, _)
\* sep.join(parts)
Join(parts, sep) ==
    IF parts = <<>> THEN <<>>
    ELSE IF Len(parts) = 1 THEN parts[1]
    ELSE parts[1] \o sep \o Join(Tail(parts), sep)

RECURSIVE Split(_, _)
\* s.split(c), c one character
Split(s, c) ==
    IF \A i \in 1..Len(s) : s[i] # c THEN <<s>>
    ELSE LET i == CHOOSE k \in 1..Len(s) :
                      s[k] = c /\ \A j \in 1..(k-1) : s[j] # c
         IN  <<SubSeq(s, 1, i-1)>> \o Split(SubSeq(s, i+1, Len(s)), c)

\* s.replace(old, new), old and new one character each
Replace(s, old, new) == [i \in 1..Len(s) |-> IF s[i] = old THEN new ELSE s[i]]

RECURSIVE RStrip(_, _)
\* s.rstrip(c)
RStrip(s, c) ==
    IF s # <<>> /\ s[Len(s)] = c THEN RStrip(SubSeq(s, 1, Len(s)-1), c) ELSE s

\* s.startswith(p)
StartsWith(s, p) == Len(s) >= Len(p) /\ SubSeq(s, 1, Len(p)) = p

\* s.endswith(p)
EndsWith(s, p) == Len(s) >= Len(p) /\ SubSeq(s, Len(s)-Len(p)+1, Len(s)) = p

\* set(s)
Chars(s) == {s[i] : i \in 1..Len(s)}

\* s.rfind(c), 0-based, -1 when absent
RFind(s, c) ==
    IF c \in Chars(s) THEN (CHOOSE k \in 1..Len(s) :
                                s[k] = c /\ \A j \in (k+1)..Len(s) : s[j] # c) - 1
    ELSE -1

\* s.find(c, start), 0-based, -1 when absent
Find(s, c, start) ==
    IF \E k \in (start+1)..Len(s) : s[k] = c
    THEN (CHOOSE k \in (start+1)..Len(s) :
              s[k] = c /\ \A j \in (start+1)..(k-1) : s[j] # c) - 1
    ELSE -1

(***************************************************************************)
(* fnmatch and re, as glob_match and subglob use them.                     *)
(***************************************************************************)

NL == "\n"

\* fnmatch.translate(pat): '*' becomes '.*' and '?' becomes '.', both under the
\* DOTALL flag of the translation; any other character is escaped.  The result
\* is the sequence of regular expression items; the closing \Z is the end of
\* the sequence.
translate(pat) ==
    [i \in 1..Len(pat) |->
        IF pat[i] = "*" THEN [k |-> "AnyStar", c |-> ""]
        ELSE IF pat[i] = "?" THEN [k |-> "Any", c |-> ""]
        ELSE [k |-> "Lit", c |-> pat[i]]]

RECURSIVE MatchFrom(_, _, _)
\* Whether the items match s[i+1..] up to the very end of s (\Z, then $).
MatchFrom(items, s, i) ==
    IF items = <<>> THEN i = Len(s)
    ELSE LET h == Head(items)
             r == Tail(items)
         IN  CASE h.k = "Lit" -> i < Len(s) /\ s[i+1] = h.c /\ MatchFrom(r, s, i+1)
               [] h.k = "Any" -> i < Len(s) /\ MatchFrom(r, s, i+1)
               [] h.k = "AnyStar" -> \E j \in i..Len(s) : MatchFrom(r, s, j)
               \* '.*' outside the translation: '.' does not match a newline
               [] h.k = "DotStar" ->
                     \E j \in i..Len(s) :
                         (\A n \in (i+1)..j : s[n] # NL) /\ MatchFrom(r, s, j)

\* re.match(alternatives, s): the pattern is an alternation of item sequences
re_match(alts, s) ==
    IF \E a \in 1..Len(alts) : MatchFrom(alts[a], s, 0) THEN "Match" ELSE "None"

\* fnmatch.fnmatch(name, pat) (posix: normcase is the identity)
fnmatch(name, pat) == MatchFrom(translate(pat), name, 0)

\* Python truthiness of what re.match returns
Truthy(m) == m = "Match"

(***************************************************************************)
(* PyName.glob_match                                                       *)
(***************************************************************************)

\* A slip: the second alternative without the literal dot, '.*{0}'
reg_pattern_nodot(ndl) ==
    << translate(ndl), <<[k |-> "DotStar", c |-> ""]>> \o translate(ndl) >>

\* '^(({0})|(.*\.{0}))$'.format(fnmatch.translate(needle))
reg_pattern(ndl) ==
    << translate(ndl),
       <<[k |-> "DotStar", c |-> ""], [k |-> "Lit", c |-> "."]>> \o translate(ndl) >>

glob_match(hay, ndl) == re_match(reg_pattern(ndl), hay)

(***************************************************************************)
(* SpecGlob: one call of PyName.glob_match.                                *)
(***************************************************************************)

MaxHay == 4
MaxNeedle == 3

HayAlphabet == {"a", "b", "."}
NeedleAlphabet == {"a", ".", "*", "?"}

\* The (haystack, needle) pairs of glob_match's docstring
FooBarCase1 == <<"f", "o", "o", ".", "b", "a", "r", ".", "C", "a", "s", "e", "1">>
FooBarCase100 == <<"f", "o", "o", ".", "b", "a", "r", ".", "C", "a", "s", "e", "1", "0", "0">>
Case1 == <<"C", "a", "s", "e", "1">>
BarCase1 == <<"b", "a", "r", ".", "C", "a", "s", "e", "1">>
FooCase1 == <<"f", "o", "o", ".", "C", "a", "s", "e", "1">>
Case2 == <<"C", "a", "s", "e", "2">>
Case10 == <<"C", "a", "s", "e", "1", "0">>
DocPairs ==
    { <<FooBarCase1, Case1>>, <<FooBarCase1, BarCase1>>, <<FooBarCase1, FooCase1>>,
      <<FooBarCase1, Case2>>, <<FooBarCase100, Case10>> }

GlobInputs ==
    (StringsUpTo(HayAlphabet, MaxHay) \X StringsUpTo(NeedleAlphabet, MaxNeedle))
        \cup DocPairs

InitGlob ==
    /\ \E p \in GlobInputs : haystack = p[1] /\ needle = p[2]
    /\ matched = "pending"
    /\ fname = <<>> /\ home = <<>>
    /\ result = [kind |-> "pending", val |-> <<>>, msg |-> ""]
    /\ objs = <<>> /\ bindings = <<>> /\ born = <<>>
    /\ ret = [op |-> "none", self |-> 0, arg |-> <<>>, out |-> "ok", val |-> 0]

\* The caller evaluates PyName.glob_match(haystack, needle).
GlobMatchCall ==
    /\ matched = "pending"
    /\ matched' = glob_match(haystack, needle)
    /\ UNCHANGED <<haystack, needle, pathVars, bindVars>>

NextGlob == GlobMatchCall

SpecGlob == InitGlob /\ [][NextGlob]_vars

RECURSIVE GlobWhole(_, _)
\* The shell glob pat matches the whole of s; '*' and '?' match any character,
\* '.' included.
GlobWhole(pat, s) ==
    IF pat = <<>> THEN s = <<>>
    ELSE IF Head(pat) = "*"
         THEN GlobWhole(Tail(pat), s) \/ (s # <<>> /\ GlobWhole(pat, Tail(s)))
    ELSE IF Head(pat) = "?"
         THEN s # <<>> /\ GlobWhole(Tail(pat), Tail(s))
    ELSE s # <<>> /\ Head(s) = Head(pat) /\ GlobWhole(Tail(pat), Tail(s))

\* The suffixes of s that start right after a '.'
DotSuffixes(s) == {SubSeq(s, i+1, Len(s)) : i \in {k \in 1..Len(s) : s[k] = "."}}

\* C1: glob_match(haystack, needle) is truthy if and only if the needle, as a
\* shell glob whose '*' may match '.', matches the whole haystack or the whole
\* of a suffix of it that starts right after a '.'; of the docstring's pairs
\* the first two match and the other three do not.
C1_GlobMatchIsDotSuffixMatch ==
    matched # "pending" =>
        /\ Truthy(matched) <=>
              \/ GlobWhole(needle, haystack)
              \/ \E t \in DotSuffixes(haystack) : GlobWhole(needle, t)
        /\ <<haystack, needle>> \in {<<FooBarCase1, Case1>>, <<FooBarCase1, BarCase1>>}
              => Truthy(matched)
        /\ <<haystack, needle>> \in {<<FooBarCase1, FooCase1>>, <<FooBarCase1, Case2>>,
                                     <<FooBarCase100, Case10>>}
              => ~Truthy(matched)

\* C1 witness: a needle with a '*' that matched only a dot-bounded suffix, the
\* '*' running across a '.'.
C1_Witness ==
    /\ Truthy(matched)
    /\ haystack = <<"b", ".", "a", ".">>
    /\ needle = <<"a", "*">>
    /\ ~GlobWhole(needle, haystack)

(***************************************************************************)
(* os.path (posixpath), as to_pyname uses it.                              *)
(***************************************************************************)

RECURSIVE norm_comps(_, _, _)
\* The loop of posixpath.normpath over the components of the path
norm_comps(comps, initial_slashes, new_comps) ==
    IF comps = <<>> THEN new_comps
    ELSE LET comp == Head(comps)
             rest == Tail(comps)
         IN  IF comp = <<>> \/ comp = <<".">>
             THEN norm_comps(rest, initial_slashes, new_comps)
             ELSE IF \/ comp # <<".", ".">>
                     \/ (initial_slashes = 0 /\ new_comps = <<>>)
                     \/ (new_comps # <<>> /\ new_comps[Len(new_comps)] = <<".", ".">>)
             THEN norm_comps(rest, initial_slashes, Append(new_comps, comp))
             ELSE IF new_comps # <<>>
             THEN norm_comps(rest, initial_slashes, SubSeq(new_comps, 1, Len(new_comps)-1))
             ELSE norm_comps(rest, initial_slashes, new_comps)

\* os.path.normpath(path)
normpath(path) ==
    IF path = <<>> THEN <<".">>
    ELSE LET initial_slashes ==
                 IF ~StartsWith(path, <<"/">>) THEN 0
                 ELSE IF StartsWith(path, <<"/", "/">>) /\ ~StartsWith(path, <<"/", "/", "/">>)
                      THEN 2
                 ELSE 1
             joined == Join(norm_comps(Split(path, "/"), initial_slashes, <<>>), <<"/">>)
             out == [i \in 1..initial_slashes |-> "/"] \o joined
         IN  IF out = <<>> THEN <<".">> ELSE out

\* The password database, name -> pw_dir, as pwd.getpwnam reads it: the modelled
\* system has no account that a path names, so every lookup raises KeyError.
Passwd == [n \in {} |-> <<>>]

\* os.path.expanduser(path) with os.environ['HOME'] = hm
expanduser(path, hm) ==
    IF ~StartsWith(path, <<"~">>) THEN path
    ELSE LET f == Find(path, "/", 1)
             i == IF f < 0 THEN Len(path) ELSE f
         IN  IF i # 1 /\ SubSeq(path, 2, i) \notin DOMAIN Passwd THEN path
             ELSE LET userhome == IF i = 1 THEN hm ELSE Passwd[SubSeq(path, 2, i)]
                      out == RStrip(userhome, "/") \o SubSeq(path, i+1, Len(path))
                  IN  IF out = <<>> THEN <<"/">> ELSE out

\* A slip: the leading dots of the file name are not skipped
splitext_from_last_dot(p) ==
    LET sepIndex == RFind(p, "/")
        dotIndex == RFind(p, ".")
    IN  IF dotIndex > sepIndex
        THEN <<SubSeq(p, 1, dotIndex), SubSeq(p, dotIndex+1, Len(p))>>
        ELSE <<p, <<>>>>

\* os.path.splitext(p): <<root, ext>>; the extension starts at the last dot of
\* the last component, unless only dots come before it there.
splitext(p) ==
    LET sepIndex == RFind(p, "/")
        dotIndex == RFind(p, ".")
    IN  IF /\ dotIndex > sepIndex
           /\ \E filenameIndex \in (sepIndex+1)..(dotIndex-1) : p[filenameIndex+1] # "."
        THEN <<SubSeq(p, 1, dotIndex), SubSeq(p, dotIndex+1, Len(p))>>
        ELSE <<p, <<>>>>

(***************************************************************************)
(* PyName.to_pyname                                                        *)
(***************************************************************************)

DotPy == <<".", "p", "y">>

Ok(v) == [kind |-> "ok", val |-> v, msg |-> ""]
\* raise PyNameError(msg): nothing is returned
Raise(m) == [kind |-> "PyNameError", val |-> <<>>, msg |-> m]

\* os.path.expanduser(os.path.normpath(fname)): normpath is applied first
normalized(f, hm) == expanduser(normpath(f), hm)

\* A slip: the hyphens of the file name only
hyphens_of_file_name(basename) ==
    LET sepIndex == RFind(basename, "/")
    IN  [i \in 1..Len(basename) |->
            IF i > sepIndex + 1 /\ basename[i] = "-" THEN "_" ELSE basename[i]]

\* basename.replace('-', '_')
hyphens_to_underscores(basename) == Replace(basename, "-", "_")

\* A slip: only the dot is looked for
has_dot_only(basename) == "." \in Chars(basename)

\* len(set('.:') & set(basename)) > 0
has_dot_or_colon(basename) == Cardinality({".", ":"} \cap Chars(basename)) > 0

\* A slip: the first separator only
first_slash_to_dot(basename) ==
    [i \in 1..Len(basename) |->
        IF basename[i] = "/" /\ (\A j \in 1..(i-1) : basename[j] # "/") THEN "."
        ELSE basename[i]]

\* basename.replace('/', '.')
slashes_to_dots(basename) == Replace(basename, "/", ".")

\* PyName.to_pyname(fname) with os.environ['HOME'] = hm
to_pyname(f, hm) ==
    LET sp == splitext(normalized(f, hm))
        ext == sp[2]
        basename == hyphens_to_underscores(sp[1])
    IN  IF ext # DotPy THEN Raise("Path must be a python file")
        ELSE IF has_dot_or_colon(basename) THEN Raise("Path must not have dot '.' or ':'")
        ELSE Ok(slashes_to_dots(basename))

(***************************************************************************)
(* SpecPath: one call of PyName.to_pyname.                                 *)
(***************************************************************************)

MaxComps == 3

\* The path components the paths are made of
PathWords ==
    { <<>>, <<".">>, <<".", ".">>, <<"~">>, <<"a", "-", "b">>, <<"a", ":">>,
      <<"a">> \o DotPy, <<"a", "-", "b">> \o DotPy, DotPy,
      <<"a", ".", "b">> \o DotPy, <<"a", ".", "t", "x", "t">> }

\* The paths of to_pyname's docstring and of the specification's examples
UsrLibPath == <<"/", "u", "s", "r", "/", "l", "i", "b", "/", "p", "y", "t", "h", "o", "n", "/", "u", "n", "i", "t", "-", "t", "e", "s", "t", ".", "p", "y">>
UsrLibName == <<".", "u", "s", "r", ".", "l", "i", "b", ".", "p", "y", "t", "h", "o", "n", ".", "u", "n", "i", "t", "_", "t", "e", "s", "t">>
RelativePath == <<"r", "e", "l", "a", "t", "i", "v", "e", "/", "p", "a", "t", "h", "/", "t", "o", "/", "t", "h", "i", "s", "_", "m", "o", "d", "u", "e", ".", "p", "y">>
RelativeNameAsDocumented == <<"r", "e", "l", "a", "t", "i", "v", "e", ".", "p", "a", "t", "h", ".", "t", "o", ".", "t", "h", "i", "s", "_", "m", "o", "d", "u", "l", "e">>
RelativeNameAsSpelt == <<"r", "e", "l", "a", "t", "i", "v", "e", ".", "p", "a", "t", "h", ".", "t", "o", ".", "t", "h", "i", "s", "_", "m", "o", "d", "u", "e">>
ModuleV2 == <<"m", "o", "d", "u", "l", "e", ".", "v", "2", ".", "p", "y">>
ModuleTxt == <<"m", "o", "d", "u", "l", "e", ".", "t", "x", "t">>
DocPaths == {UsrLibPath, RelativePath, ModuleV2, ModuleTxt}

Paths ==
    {Join(w, <<"/">>) : w \in UNION {[1..n -> PathWords] : n \in 1..MaxComps}}
        \cup DocPaths

\* The values of $HOME
Homes == { <<"/", "h">>, <<"/", "u", "-", "v", "/">> }

InitPath ==
    /\ fname \in Paths
    /\ home \in Homes
    /\ result = [kind |-> "pending", val |-> <<>>, msg |-> ""]
    /\ haystack = <<>> /\ needle = <<>> /\ matched = "pending"
    /\ objs = <<>> /\ bindings = <<>> /\ born = <<>>
    /\ ret = [op |-> "none", self |-> 0, arg |-> <<>>, out |-> "ok", val |-> 0]

\* The caller evaluates PyName.to_pyname(fname).
ToPynameCall ==
    /\ result.kind = "pending"
    /\ result' = to_pyname(fname, home)
    /\ UNCHANGED <<fname, home, globVars, bindVars>>

NextPath == ToPynameCall

SpecPath == InitPath /\ [][NextPath]_vars

(***************************************************************************)
(* The claims about to_pyname.                                             *)
(***************************************************************************)

called == result.kind # "pending"

\* The path as to_pyname normalizes it, and what is left of it without its
\* last three characters
np == normalized(fname, home)
remainder == SubSeq(np, 1, Len(np) - 3)

\* Each '-' as '_' and each '/' as '.', everything else as it is
Dotted(s) ==
    [i \in 1..Len(s) |-> IF s[i] = "-" THEN "_" ELSE IF s[i] = "/" THEN "." ELSE s[i]]

\* The file name has something before its '.py': the remainder is not empty
\* and does not end in '/'
HasStem(s) == s # <<>> /\ s[Len(s)] # "/"

\* The extension of a path: of its last component without its leading dots,
\* what starts at the last dot; empty when no dot is left there.
LastComponent(s) == LET c == Split(s, "/") IN c[Len(c)]
RECURSIVE LStripDots(_)
LStripDots(s) == IF s # <<>> /\ Head(s) = "." THEN LStripDots(Tail(s)) ELSE s
ExtensionOf(s) ==
    LET n == LStripDots(LastComponent(s))
    IN  IF "." \in Chars(n) THEN SubSeq(n, RFind(n, ".") + 1, Len(n)) ELSE <<>>

\* C2 as stated: for every path that ends in '.py' and whose remainder holds
\* no '.' or ':' after normalization, to_pyname returns the path without the
\* '.py', with '_' for every '-' and '.' for every '/'.
C2_AsStated ==
    (called /\ EndsWith(np, DotPy) /\ {".", ":"} \cap Chars(remainder) = {})
        => result = Ok(Dotted(remainder))

\* C2, amended: the same for every path whose file name has a non-empty stem
\* before the '.py'; an absolute path yields a leading dot, and
\* '/usr/lib/python/unit-test.py' gives '.usr.lib.python.unit_test'.
C2_StripHyphensSlashes ==
    /\ (called /\ EndsWith(np, DotPy) /\ HasStem(remainder)
            /\ {".", ":"} \cap Chars(remainder) = {})
          => /\ result = Ok(Dotted(remainder))
             /\ StartsWith(np, <<"/">>) => StartsWith(result.val, <<".">>)
    /\ (called /\ fname = UsrLibPath) => result = Ok(UsrLibName)

\* C2 witness: an absolute path with a hyphen in a directory and in the file
\* name was converted.
C2_Witness ==
    /\ result.kind = "ok"
    /\ fname = <<"/", "a", "-", "b", "/", "a", "-", "b", ".", "p", "y">>
    /\ result.val = <<".", "a", "_", "b", ".", "a", "_", "b">>

\* C4: for every path whose extension, after normalization, is not exactly
\* '.py', to_pyname raises PyNameError and returns nothing.
C4_WrongExtensionRaises ==
    (called /\ ExtensionOf(np) # DotPy)
        => result.kind = "PyNameError" /\ result.val = <<>>

\* C4 witness: a path with '.py' as a directory's extension and another
\* extension on the file was refused; so was 'module.txt'.
C4_Witness ==
    /\ result.kind = "PyNameError"
    /\ fname = <<"a", ".", "b", ".", "p", "y", "/", "a", ".", "t", "x", "t">>
          \/ fname = ModuleTxt

\* C5 as stated: for every path ending in '.py', to_pyname raises PyNameError
\* if what is left without the extension holds a '.' or a ':', and raises
\* nothing if it holds neither.
C5_AsStated ==
    (called /\ EndsWith(np, DotPy))
        => IF {".", ":"} \cap Chars(Replace(remainder, "-", "_")) # {}
           THEN result.kind = "PyNameError" /\ result.val = <<>>
           ELSE result.kind = "ok"

\* C5, amended: for every path ending in '.py', to_pyname raises PyNameError
\* and returns nothing if what is left without the extension holds a '.' or a
\* ':' anywhere; if it holds neither and the file name has a non-empty stem
\* before the '.py', nothing is raised.  'module.v2.py' raises.
C5_DotOrColonRaises ==
    /\ (called /\ EndsWith(np, DotPy))
          => /\ {".", ":"} \cap Chars(Replace(remainder, "-", "_")) # {}
                   => result.kind = "PyNameError" /\ result.val = <<>>
             /\ ({".", ":"} \cap Chars(remainder) = {} /\ HasStem(remainder))
                   => result.kind = "ok"
    /\ (called /\ fname = ModuleV2) => result.kind = "PyNameError"

\* C5 witness: a ':' in a directory, under a file name that is fine, was
\* refused by the check of the characters.
C5_Witness ==
    /\ result.kind = "PyNameError"
    /\ result.msg = "Path must not have dot '.' or ':'"
    /\ fname = <<"a", ":", "/", "a", ".", "p", "y">>

to_pyname_expanding_first(f, hm) ==
    LET sp == splitext(normpath(expanduser(f, hm)))
        basename == Replace(sp[1], "-", "_")
    IN  IF sp[2] # DotPy \/ {".", ":"} \cap Chars(basename) # {}
        THEN [kind |-> "PyNameError", val |-> <<>>]
        ELSE [kind |-> "ok", val |-> Replace(basename, "/", ".")]

\* C9: to_pyname expands a leading '~' to the home directory first and then
\* normalizes the path, so that '..' after '~' is resolved against the home
\* directory; the result for a path without '~' does not depend on the home
\* directory.
C9_ExpandsThenNormalizes ==
    called =>
        /\ [kind |-> result.kind, val |-> result.val] = to_pyname_expanding_first(fname, home)
        /\ "~" \notin Chars(fname) => \A h \in Homes : to_pyname(fname, h) = result

(***************************************************************************)
(* PyName objects and their subjects.                                      *)
(*                                                                         *)
(* A subject is an object of the program under test.  objs[o].name is its  *)
(* __name__ (hasName: whether it has one; an instance such as a string has *)
(* none) and objs[o].attrs its other members, "absent" where it has none   *)
(* of that name.  A PyName is its index in bindings; None is 0.            *)
(***************************************************************************)

Absent == "absent"
None == 0

\* self._prefix = prefix.rstrip('.'); self.obj = obj, on a new instance
NewFields(prefix, obj) == [prefix |-> RStrip(prefix, "."), obj |-> obj]

\* A slip: the prefix is kept as given
PyNameInitUnstripped(bs, prefix, obj) == Append(bs, [prefix |-> prefix, obj |-> obj])

\* A slip: the fields are the class's, shared by every instance
PyNameInitShared(bs, prefix, obj) == [i \in 1..(Len(bs)+1) |-> NewFields(prefix, obj)]

\* PyName(prefix, obj): the instances with the new one, which is the last
PyNameInit(bs, prefix, obj) == Append(bs, NewFields(prefix, obj))

\* self.name: '{}.{}'.format(self._prefix, self.obj.__name__); reading
\* __name__ raises AttributeError when the subject has none
name_of(self) ==
    IF ~objs[self.obj].hasName
    THEN [kind |-> "AttributeError", val |-> <<>>]
    ELSE [kind |-> "ok", val |-> self.prefix \o <<".">> \o objs[self.obj].name]

\* hasattr(self.obj, attribute)
hasattr(o, attribute) ==
    attribute \in DOMAIN objs[o].attrs /\ objs[o].attrs[attribute] # Absent

\* getattr(self.obj, attribute)
getattr(o, attribute) == objs[o].attrs[attribute]

\* The member names in sorted order
SortedNames == << <<"f">>, <<"f", "g">> >>

\* inspect.getmembers(self.obj): the (name, value) pairs sorted by name
getmembers(o) ==
    LET present == SelectSeq(SortedNames, LAMBDA a : hasattr(o, a))
    IN  [i \in 1..Len(present) |-> <<present[i], getattr(o, present[i])>>]

\* A slip: every member is taken, whatever its name
subglob_test_always(member_name, pattern) == TRUE

\* fnmatch.fnmatch(name, pattern)
subglob_test(member_name, pattern) == fnmatch(member_name, pattern)

\* A slip: the child is named after the parent's prefix, not its full name
child_prefix_of_prefix(self) == [kind |-> "ok", val |-> self.prefix]

\* The prefix given to a child: self.name
child_prefix(self) == name_of(self)

RECURSIVE subglob_loop(_, _, _, _, _, _)
\* The loop of subglob over the members left; out holds the PyNames added.
subglob_loop(info, pattern, self, bs, hist, out) ==
    IF info = <<>> THEN [kind |-> "ok", bs |-> bs, hist |-> hist, out |-> out]
    ELSE LET member_name == info[1][1]
             member == info[1][2]
         IN  IF subglob_test(member_name, pattern)
             THEN LET n == child_prefix(bs[self])
                  IN  IF n.kind # "ok"
                      THEN [kind |-> n.kind, bs |-> bs, hist |-> hist, out |-> {}]
                      ELSE subglob_loop(Tail(info), pattern, self,
                               PyNameInit(bs, n.val, member),
                               Append(hist, [given |-> n.val, parent |-> self,
                                             attr |-> member_name]),
                               out \cup {Len(bs) + 1})
             ELSE subglob_loop(Tail(info), pattern, self, bs, hist, out)

(***************************************************************************)
(* Spec: PyName objects over a heap of subjects.                           *)
(***************************************************************************)

MaxBindings == 3

Subjects == {"mod", "cls", "doc"}
\* What the environment rebinds and deletes while the PyNames are in use: the
\* attributes of the module, bound to the class or to the string
Mutable == {"mod"}
MutableAttrs == { <<"f">>, <<"f", "g">> }
Values == {"cls", "doc"}
AttrNames == {SortedNames[i] : i \in 1..Len(SortedNames)}

\* The prefixes the caller constructs PyNames with
Prefixes == { <<>>, <<"p">>, <<"p", ".", ".">> }

\* The patterns the caller matches names and members against
MatchPatterns == { <<"m", ".", "*">> }
MemberPatterns == { <<"*">>, <<"f", "?">>, <<"x">> }

InitObjs ==
    [o \in Subjects |->
        CASE o = "mod" -> [hasName |-> TRUE, name |-> <<"m">>,
                           attrs |-> (<<"f">> :> "cls") @@ (<<"f", "g">> :> "doc")]
          [] o = "cls" -> [hasName |-> TRUE, name |-> <<"C">>,
                           attrs |-> (<<"f">> :> "doc") @@ (<<"f", "g">> :> Absent)]
          [] o = "doc" -> [hasName |-> FALSE, name |-> <<>>,
                           attrs |-> (<<"f">> :> Absent) @@ (<<"f", "g">> :> Absent)]]

NoCall == [op |-> "none", self |-> 0, arg |-> <<>>, out |-> "ok", val |-> 0]

Init ==
    /\ objs = InitObjs
    /\ bindings = <<>>
    /\ born = <<>>
    /\ ret = NoCall
    /\ haystack = <<>> /\ needle = <<>> /\ matched = "pending"
    /\ fname = <<>> /\ home = <<>>
    /\ result = [kind |-> "pending", val |-> <<>>, msg |-> ""]

\* The caller constructs the root, PyName(prefix, o); o has a __name__, as
\* __init__ requires of its caller.  Every other PyName derives from the root
\* by sub and subglob.
Construct(prefix, o) ==
    /\ bindings = <<>>
    /\ objs[o].hasName
    /\ bindings' = PyNameInit(bindings, prefix, o)
    /\ born' = Append(born, [given |-> prefix, parent |-> 0, attr |-> <<>>])
    /\ ret' = [op |-> "init", self |-> Len(bindings) + 1, arg |-> prefix,
               out |-> "ok", val |-> Len(bindings) + 1]
    /\ UNCHANGED <<objs, globVars, pathVars>>

\* The caller reads b.name.
NameCall(b) ==
    /\ LET n == name_of(bindings[b])
       IN  ret' = [op |-> "name", self |-> b, arg |-> <<>>, out |-> n.kind, val |-> n.val]
    /\ UNCHANGED <<objs, bindings, born, globVars, pathVars>>

\* The caller evaluates b.match(pattern): PyName.glob_match(self.name, name).
MatchCall(b, pattern) ==
    /\ LET n == name_of(bindings[b])
       IN  ret' = [op |-> "match", self |-> b, arg |-> pattern, out |-> n.kind,
                   val |-> IF n.kind = "ok" THEN glob_match(n.val, pattern) ELSE "None"]
    /\ UNCHANGED <<objs, bindings, born, globVars, pathVars>>

\* The caller evaluates b.sub(attribute).
Sub(b, attribute) ==
    LET self == bindings[b]
    IN  IF hasattr(self.obj, attribute)
        THEN LET obj == getattr(self.obj, attribute)
                 n == child_prefix(self)
             IN  IF n.kind # "ok"
                 THEN /\ ret' = [op |-> "sub", self |-> b, arg |-> attribute,
                                 out |-> n.kind, val |-> None]
                      /\ UNCHANGED <<objs, bindings, born, globVars, pathVars>>
                 ELSE /\ Len(bindings) < MaxBindings
                      /\ bindings' = PyNameInit(bindings, n.val, obj)
                      /\ born' = Append(born, [given |-> n.val, parent |-> b,
                                               attr |-> attribute])
                      /\ ret' = [op |-> "sub", self |-> b, arg |-> attribute,
                                 out |-> "ok", val |-> Len(bindings) + 1]
                      /\ UNCHANGED <<objs, globVars, pathVars>>
        ELSE /\ ret' = [op |-> "sub", self |-> b, arg |-> attribute,
                        out |-> "ok", val |-> None]
             /\ UNCHANGED <<objs, bindings, born, globVars, pathVars>>

\* The caller evaluates b.subglob(pattern).
SubGlob(b, pattern) ==
    LET r == subglob_loop(getmembers(bindings[b].obj), pattern, b, bindings, born, {})
    IN  /\ Len(r.bs) <= MaxBindings
        /\ IF r.kind = "ok"
           THEN bindings' = r.bs /\ born' = r.hist
           ELSE UNCHANGED <<bindings, born>>
        /\ ret' = [op |-> "subglob", self |-> b, arg |-> pattern,
                   out |-> r.kind, val |-> r.out]
        /\ UNCHANGED <<objs, globVars, pathVars>>

\* The environment binds attribute a of subject o to v: setattr(o, a, v).
SetAttr(o, a, v) ==
    /\ objs[o].attrs[a] # v
    /\ objs' = [objs EXCEPT ![o].attrs[a] = v]
    /\ ret' = NoCall
    /\ UNCHANGED <<bindings, born, globVars, pathVars>>

\* The environment deletes attribute a of subject o: delattr(o, a).
DelAttr(o, a) ==
    /\ objs[o].attrs[a] # Absent
    /\ objs' = [objs EXCEPT ![o].attrs[a] = Absent]
    /\ ret' = NoCall
    /\ UNCHANGED <<bindings, born, globVars, pathVars>>

Next ==
    \/ \E prefix \in Prefixes, o \in Subjects : Construct(prefix, o)
    \/ \E b \in 1..Len(bindings) : NameCall(b)
    \/ \E b \in 1..Len(bindings), pattern \in MatchPatterns : MatchCall(b, pattern)
    \/ \E b \in 1..Len(bindings), attribute \in AttrNames : Sub(b, attribute)
    \/ \E b \in 1..Len(bindings), pattern \in MemberPatterns : SubGlob(b, pattern)
    \/ \E o \in Mutable, a \in MutableAttrs, v \in Values : SetAttr(o, a, v)
    \/ \E o \in Mutable, a \in MutableAttrs : DelAttr(o, a)

Spec == Init /\ [][Next]_vars

(***************************************************************************)
(* The claims about PyName objects.                                        *)
(***************************************************************************)

\* The identifier of the subject of PyName b, and b's full name: its prefix,
\* a dot, the identifier
Identifier(b) == objs[bindings[b].obj].name
Named(b) == objs[bindings[b].obj].hasName
FullName(b) == bindings[b].prefix \o <<".">> \o Identifier(b)

\* The prefix PyName b was constructed with, its trailing dots stripped
StrippedPrefix(b) == RStrip(born[b].given, ".")

\* C3 as stated: the name of PyName(p, subject) is p + '.' + n when p, taken
\* after its trailing dots are stripped, is not empty, and n alone, with no
\* leading dot, when p is empty.
C3_AsStated ==
    (ret.op = "name" /\ ret.out = "ok")
        => ret.val = IF StrippedPrefix(ret.self) = <<>>
                     THEN Identifier(ret.self)
                     ELSE StrippedPrefix(ret.self) \o <<".">> \o Identifier(ret.self)

\* C3, amended: the name of PyName(p, subject) is p + '.' + n for every p
\* taken after its trailing dots are stripped; when p is empty that is
\* '.' + n, with a leading dot.
C3_NameIsPrefixDotIdentifier ==
    (ret.op = "name" /\ ret.out = "ok")
        => ret.val = StrippedPrefix(ret.self) \o <<".">> \o Identifier(ret.self)

\* C3 witness: the name of a PyName constructed with 'p..' was read and is
\* 'p.m'.
C3_Witness ==
    /\ ret.op = "name"
    /\ born[ret.self].given = <<"p", ".", ".">>
    /\ ret.val = <<"p", ".", "m">>

C10_ChildIsSnapshot ==
    [][\A i \in 1..Len(bindings) :
          i <= Len(bindings') /\ bindings'[i] = bindings[i]]_vars

\* C10 witness: a child made from an attribute lives on with its subject after
\* the attribute was deleted or bound to another value.
C10_Witness ==
    \E c \in 1..Len(bindings) :
        /\ born[c].parent # 0
        /\ objs[bindings[born[c].parent].obj].attrs[born[c].attr] # bindings[c].obj
        /\ bindings[c].prefix = FullName(born[c].parent)

====
